---------------------------- MODULE Spec2Model ----------------------------
(***************************************************************************)
(* Plannotator: the share-payload codec (utils/sharing.ts), the agent      *)
(* switch settings (packages/ui/utils/agentSwitch.ts) and the hook         *)
(* installer (install.sh).                                                 *)
(*                                                                         *)
(* JavaScript values are tagged records [t, v] so that strings, null,      *)
(* undefined, arrays and objects can sit in the same tuple slot.  JSON     *)
(* text is a sequence of tokens; JSON.stringify and JSON.parse are         *)
(* modelled on that token sequence.                                        *)
(***************************************************************************)
EXTENDS Integers, Sequences, FiniteSets, TLC

(***************************************************************************)
(* Bounds of the model.                                                    *)
(***************************************************************************)
MaxAnnotations == 2
MaxClock == 2
MaxTuples == 3
MaxRuns == 3

(***************************************************************************)
(* JavaScript values.                                                      *)
(***************************************************************************)
Str(s) == [t |-> "string", v |-> s]
Null == [t |-> "null", v |-> ""]
Undefined == [t |-> "undefined", v |-> ""]
Num(s) == [t |-> "number", v |-> s]
Arr(elems) == [t |-> "array", v |-> elems]
Obj(members) == [t |-> "object", v |-> members]
Member(key, value) == [k |-> key, val |-> value]

\* ToBoolean(x) = false, as used by `x || y` and `x ? a : b`.
Falsy(x) ==
  \/ x.t \in {"undefined", "null"}
  \/ x.t = "string" /\ x.v = ""
  \/ x.t = "number" /\ x.v = "0"

\* a || b
OrElse(a, b) == IF Falsy(a) THEN b ELSE a

\* x?.length ? x : undefined
NonEmptyOrUndefined(x) ==
  IF x.t \in {"undefined", "null"} THEN Undefined
  ELSE IF x.t \in {"array", "string"} /\ Len(x.v) > 0 THEN x
  ELSE Undefined

\* item[i] with a 0-based index, undefined past the end of the array.
At(item, i) == IF i + 1 \in DOMAIN item.v THEN item.v[i + 1] ELSE Undefined

\* obj.key, the last member of that name winning as in JSON.parse.
RECURSIVE GetFrom(_, _, _)
GetFrom(members, key, n) ==
  IF n = 0 THEN Undefined
  ELSE IF members[n].k = key THEN members[n].val
  ELSE GetFrom(members, key, n - 1)

Get(obj, key) ==
  IF obj.t = "object" THEN GetFrom(obj.v, key, Len(obj.v)) ELSE Undefined

(***************************************************************************)
(* JSON text as tokens.                                                    *)
(***************************************************************************)
Punct(c) == [k |-> "punct", s |-> c]
StrTok(s) == [k |-> "string", s |-> s]
Lit(s) == [k |-> "literal", s |-> s]

NumberLiterals == {"0", "42"}

RECURSIVE Stringify(_)
RECURSIVE StringifyElems(_, _)
RECURSIVE StringifyMembers(_, _, _)

RECURSIVE StringifyElems_SkipNullish(_, _)
RECURSIVE StringifyElems_DropLast(_, _)

\* Mutant: undefined and null elements are left out, as object members are.
StringifyElems_SkipNullish(elems, i) ==
  IF i > Len(elems) THEN <<>>
  ELSE IF elems[i].t \in {"undefined", "null"}
       THEN StringifyElems_SkipNullish(elems, i + 1)
       ELSE (IF i > 1 THEN <<Punct(",")>> ELSE <<>>)
            \o Stringify(elems[i])
            \o StringifyElems_SkipNullish(elems, i + 1)

\* Mutant: the loop stops one element early.
StringifyElems_DropLast(elems, i) ==
  IF i >= Len(elems) THEN <<>>
  ELSE (IF i > 1 THEN <<Punct(",")>> ELSE <<>>)
       \o (IF elems[i].t = "undefined" THEN <<Lit("null")>>
           ELSE Stringify(elems[i]))
       \o StringifyElems_DropLast(elems, i + 1)

\* Array elements: undefined is written as null.
StringifyElems(elems, i) ==
  IF i > Len(elems) THEN <<>>
  ELSE (IF i > 1 THEN <<Punct(",")>> ELSE <<>>)
       \o (IF elems[i].t = "undefined" THEN <<Lit("null")>>
           ELSE Stringify(elems[i]))
       \o StringifyElems(elems, i + 1)

\* Object members: a member whose value is undefined is left out.
StringifyMembers(members, i, first) ==
  IF i > Len(members) THEN <<>>
  ELSE IF members[i].val.t = "undefined"
       THEN StringifyMembers(members, i + 1, first)
       ELSE (IF first THEN <<>> ELSE <<Punct(",")>>)
            \o <<StrTok(members[i].k), Punct(":")>>
            \o Stringify(members[i].val)
            \o StringifyMembers(members, i + 1, FALSE)

Stringify(x) ==
  CASE x.t = "string" -> <<StrTok(x.v)>>
    [] x.t = "number" -> <<Lit(x.v)>>
    [] x.t = "null" -> <<Lit("null")>>
    [] x.t = "array" -> <<Punct("[")>> \o StringifyElems(x.v, 1) \o <<Punct("]")>>
    [] x.t = "object" ->
         <<Punct("{")>> \o StringifyMembers(x.v, 1, TRUE) \o <<Punct("}")>>

Fail == [ok |-> FALSE, val |-> Undefined, rest |-> <<>>]
Parsed(x, toks) == [ok |-> TRUE, val |-> x, rest |-> toks]

RECURSIVE ParseValue(_)
RECURSIVE ParseElems(_, _)
RECURSIVE ParseMembers(_, _)

\* After '[' and the elements read so far, at the start of an element.
ParseElems(toks, acc) ==
  LET e == ParseValue(toks) IN
  IF ~e.ok \/ e.rest = <<>> THEN Fail
  ELSE IF Head(e.rest) = Punct("]")
       THEN Parsed(Arr(Append(acc, e.val)), Tail(e.rest))
  ELSE IF Head(e.rest) = Punct(",")
       THEN ParseElems(Tail(e.rest), Append(acc, e.val))
  ELSE Fail

\* After '{' and the members read so far, at the start of a member.
ParseMembers(toks, acc) ==
  IF Len(toks) < 2 \/ toks[1].k # "string" \/ toks[2] # Punct(":") THEN Fail
  ELSE LET e == ParseValue(SubSeq(toks, 3, Len(toks)))
           members == Append(acc, Member(toks[1].s, e.val)) IN
       IF ~e.ok \/ e.rest = <<>> THEN Fail
       ELSE IF Head(e.rest) = Punct("}")
            THEN Parsed(Obj(members), Tail(e.rest))
       ELSE IF Head(e.rest) = Punct(",")
            THEN ParseMembers(Tail(e.rest), members)
       ELSE Fail

ParseValue(toks) ==
  IF toks = <<>> THEN Fail
  ELSE LET h == Head(toks)
           r == Tail(toks) IN
    CASE h.k = "string" -> Parsed(Str(h.s), r)
      [] h.k = "literal" ->
           IF h.s = "null" THEN Parsed(Null, r)
           ELSE IF h.s \in NumberLiterals THEN Parsed(Num(h.s), r)
           ELSE Fail
      [] h.k = "punct" ->
           IF h.s = "[" THEN
             IF r # <<>> /\ Head(r) = Punct("]") THEN Parsed(Arr(<<>>), Tail(r))
             ELSE ParseElems(r, <<>>)
           ELSE IF h.s = "{" THEN
             IF r # <<>> /\ Head(r) = Punct("}") THEN Parsed(Obj(<<>>), Tail(r))
             ELSE ParseMembers(r, <<>>)
           ELSE Fail

\* JSON.parse: a SyntaxError unless the whole text is one value.
JSONparse(toks) ==
  LET e == ParseValue(toks) IN
  IF e.ok /\ e.rest = <<>> THEN [ok |-> TRUE, val |-> e.val]
  ELSE [ok |-> FALSE, val |-> Undefined]

(***************************************************************************)
(* Annotations (types.ts) and the share payload (utils/sharing.ts).        *)
(***************************************************************************)
DELETION == Str("DELETION")
INSERTION == Str("INSERTION")
REPLACEMENT == Str("REPLACEMENT")
COMMENT == Str("COMMENT")
GLOBAL_COMMENT == Str("GLOBAL_COMMENT")

\* An annotation as the editor creates it from a selection.
UserAnnotation(type, originalText, text, author, imagePaths) ==
  [id |-> <<"hl", 0, 0>>, blockId |-> "block-0", startOffset |-> 3,
   endOffset |-> 6, type |-> type, text |-> text,
   originalText |-> originalText, createdA |-> 0, author |-> author,
   imagePaths |-> imagePaths, startMeta |-> Str("P"), endMeta |-> Str("P")]

\* ann.type[0]
FirstChar(type) ==
  CASE type = DELETION -> Str("D")
    [] type = INSERTION -> Str("I")
    [] type = REPLACEMENT -> Str("R")
    [] type = COMMENT -> Str("C")
    [] type = GLOBAL_COMMENT -> Str("G")

toShareableOne(ann) ==
  LET author == OrElse(ann.author, Null)
      images == NonEmptyOrUndefined(ann.imagePaths)
      type == FirstChar(ann.type) IN
  IF ann.type = GLOBAL_COMMENT
  THEN Arr(<<Str("G"), OrElse(ann.text, Str("")), author, images>>)
  ELSE IF type = Str("D")
  THEN Arr(<<Str("D"), ann.originalText, author, images>>)
  ELSE Arr(<<type, ann.originalText, OrElse(ann.text, Str("")), author, images>>)

toShareable(annotations) ==
  Arr([i \in 1..Len(annotations) |-> toShareableOne(annotations[i])])

typeMap(tag) ==
  CASE tag = Str("D") -> DELETION
    [] tag = Str("R") -> REPLACEMENT
    [] tag = Str("C") -> COMMENT
    [] tag = Str("I") -> INSERTION
    [] tag = Str("G") -> GLOBAL_COMMENT
    [] OTHER -> Undefined

\* Mutant: createdA is the bare clock reading, the index is not added.
fromShareableOne_NoIndex(item, index, idNow, createdNow) ==
  LET type == At(item, 0)
      global == type = Str("G") IN
  [id |-> <<"shared", index, idNow>>, blockId |-> "", startOffset |-> 0,
   endOffset |-> 0, type |-> typeMap(type),
   text |-> OrElse(IF global THEN At(item, 1)
                   ELSE IF type = Str("D") THEN Undefined ELSE At(item, 2),
                   Undefined),
   originalText |-> IF global THEN Str("") ELSE At(item, 1),
   createdA |-> createdNow,
   author |-> OrElse(IF global \/ type = Str("D") THEN At(item, 2) ELSE At(item, 3),
                     Undefined),
   imagePaths |-> NonEmptyOrUndefined(IF global \/ type = Str("D") THEN At(item, 3)
                                      ELSE At(item, 4)),
   startMeta |-> Undefined, endMeta |-> Undefined]

\* Mutant: the id is built from the clock reading alone.
fromShareableOne_NoIndexInId(item, index, idNow, createdNow) ==
  [fromShareableOne_NoIndex(item, index, idNow, createdNow) EXCEPT
     !.id = <<"shared", 0, idNow>>, !.createdA = createdNow + index]

\* One element of data.map((item, index) => ...): idNow and createdNow are
\* the two readings of Date.now() taken while the object literal is built.
fromShareableOne(item, index, idNow, createdNow) ==
  LET type == At(item, 0) IN
  IF type = Str("G")
  THEN LET text == At(item, 1)
           author == At(item, 2)
           imagePaths == At(item, 3) IN
       [id |-> <<"shared", index, idNow>>, blockId |-> "", startOffset |-> 0,
        endOffset |-> 0, type |-> GLOBAL_COMMENT,
        text |-> OrElse(text, Undefined), originalText |-> Str(""),
        createdA |-> createdNow + index, author |-> OrElse(author, Undefined),
        imagePaths |-> NonEmptyOrUndefined(imagePaths),
        startMeta |-> Undefined, endMeta |-> Undefined]
  ELSE LET originalText == At(item, 1)
           text == IF type = Str("D") THEN Undefined ELSE At(item, 2)
           author == IF type = Str("D") THEN At(item, 2) ELSE At(item, 3)
           imagePaths == IF type = Str("D") THEN At(item, 3) ELSE At(item, 4) IN
       [id |-> <<"shared", index, idNow>>, blockId |-> "", startOffset |-> 0,
        endOffset |-> 0, type |-> typeMap(type),
        text |-> OrElse(text, Undefined), originalText |-> originalText,
        createdA |-> createdNow + index, author |-> OrElse(author, Undefined),
        imagePaths |-> NonEmptyOrUndefined(imagePaths),
        startMeta |-> Undefined, endMeta |-> Undefined]

\* readings holds the 2 * Len(data) readings of the clock, in call order.
fromShareable(data, readings) ==
  [i \in 1..Len(data.v) |->
     fromShareableOne(data.v[i], i - 1, readings[2 * i - 1], readings[2 * i])]

(***************************************************************************)
(* The URL fragment.  btoa/atob and deflate-raw carry the JSON text        *)
(* unchanged when the fragment is well formed; a fragment can also be      *)
(* empty, not base64 at all, or base64 of bytes that do not inflate.       *)
(***************************************************************************)
EmptyHash == [kind |-> "empty", text |-> <<>>]
BadBase64 == [kind |-> "badbase64", text |-> <<>>]
BadDeflate == [kind |-> "baddeflate", text |-> <<>>]
Deflated(text) == [kind |-> "deflated", text |-> text]

compress(payload) == Deflated(Stringify(payload))

\* [ok |-> FALSE] stands for a thrown exception or a rejected promise.
decompress(b64) ==
  IF b64.kind = "badbase64" THEN [ok |-> FALSE, val |-> Undefined]
  ELSE IF b64.kind # "deflated" THEN [ok |-> FALSE, val |-> Undefined]
  ELSE JSONparse(b64.text)

SharePayload(markdown, annotations, globalAttachments) ==
  Obj(<<Member("p", Str(markdown)),
        Member("a", toShareable(annotations)),
        Member("g", NonEmptyOrUndefined(globalAttachments))>>)

\* The fragment of the URL generateShareUrl returns.
generateShareUrl(markdown, annotations, globalAttachments) ==
  compress(SharePayload(markdown, annotations, globalAttachments))

\* Mutant: no try/catch around decompress.
parseShareHash_NoCatch(hash) ==
  IF hash.kind = "empty" THEN [threw |-> FALSE, val |-> Null]
  ELSE LET r == decompress(hash) IN
       IF r.ok THEN [threw |-> FALSE, val |-> r.val]
       ELSE [threw |-> TRUE, val |-> Undefined]

\* threw is whether the call raised to its caller.
parseShareHash(hash) ==
  IF hash.kind = "empty" THEN [threw |-> FALSE, val |-> Null]
  ELSE LET r == decompress(hash) IN
       IF r.ok THEN [threw |-> FALSE, val |-> r.val]
       ELSE [threw |-> FALSE, val |-> Null]

(***************************************************************************)
(* Inputs of the model.                                                    *)
(***************************************************************************)
Foo == Str("foo")
Bar == Str("bar")
Tater == Str("swift-falcon-tater")
Img == Arr(<<Str("/tmp/img.png")>>)

AnnotationInputs ==
  { UserAnnotation(DELETION, Foo, Undefined, Undefined, Undefined),
    UserAnnotation(DELETION, Foo, Bar, Tater, Img),
    UserAnnotation(DELETION, Str(""), Undefined, Str(""), Arr(<<>>)),
    UserAnnotation(GLOBAL_COMMENT, Str(""), Str("looks good overall"), Undefined, Undefined),
    UserAnnotation(GLOBAL_COMMENT, Foo, Str("looks good overall"), Tater, Img),
    UserAnnotation(GLOBAL_COMMENT, Foo, Undefined, Str(""), Arr(<<>>)),
    UserAnnotation(REPLACEMENT, Foo, Bar, Undefined, Undefined),
    UserAnnotation(REPLACEMENT, Foo, Str(""), Tater, Img),
    UserAnnotation(COMMENT, Foo, Bar, Tater, Undefined),
    UserAnnotation(INSERTION, Foo, Bar, Undefined, Img) }

RECURSIVE SeqsUpTo(_, _)
SeqsUpTo(S, n) ==
  IF n = 0 THEN {<<>>}
  ELSE LET shorter == SeqsUpTo(S, n - 1) IN
       shorter \cup {Append(q, x) : q \in shorter, x \in S}

PlanInputs ==
  { <<"# Title", Undefined>>, <<"", Arr(<<>>)>>, <<"# Title", Img>> }

\* Texts that are not JSON.
NotJSONTexts ==
  { <<>>,
    <<Punct("[")>>,
    <<Punct("{"), StrTok("p")>>,
    <<Lit("undefined")>>,
    <<StrTok("x"), StrTok("y")>>,
    <<Punct("["), Lit("null"), Punct(","), Punct("]")>> }

\* Well-formed JSON that is not a SharePayload.
NotPayloadTexts ==
  { <<Lit("42")>>,
    <<Punct("{"), Punct("}")>>,
    <<Punct("{"), StrTok("p"), Punct(":"), StrTok("x"), Punct("}")>>,
    <<Punct("{"), StrTok("p"), Punct(":"), StrTok("x"), Punct(","),
      StrTok("a"), Punct(":"), Punct("["), Punct("["), StrTok("X"), Punct(","),
      StrTok("foo"), Punct(","), Lit("null"), Punct("]"), Punct("]"),
      Punct("}")>> }

\* Payloads written by hand or by an older build: tuples without the
\* trailing image element.
LegacyTexts ==
  { <<Punct("{"), StrTok("p"), Punct(":"), StrTok("x"), Punct(","),
      StrTok("a"), Punct(":"), Punct("["),
      Punct("["), StrTok("D"), Punct(","), StrTok("foo"), Punct(","),
      Lit("null"), Punct("]"), Punct(","),
      Punct("["), StrTok("R"), Punct(","), StrTok("foo"), Punct(","),
      StrTok("bar"), Punct(","), StrTok("swift-falcon-tater"), Punct("]"),
      Punct("]"), Punct("}")>> }

ForeignHashes ==
  {EmptyHash, BadBase64, BadDeflate}
  \cup {Deflated(text) : text \in NotJSONTexts \cup NotPayloadTexts \cup LegacyTexts}

\* Non-decreasing readings of the clock, n of them, none before lo.
RECURSIVE Readings(_, _)
Readings(n, lo) ==
  IF n = 0 THEN {<<>>}
  ELSE UNION { {<<first>> \o rest : rest \in Readings(n - 1, first)} :
               first \in lo..MaxClock }

(***************************************************************************)
(* State.                                                                  *)
(***************************************************************************)
VARIABLES
  markdown,           \* the plan shown in the editor
  annotations,        \* the editor's annotation list
  globalAttachments,  \* the editor's global attachments
  shareUrl,           \* the last generated share URL
  hash,               \* window.location.hash
  payload,            \* what parseShareHash returned for this page load
  once,               \* the payload decoded from the first share URL
  restored,           \* what the last fromShareable call returned
  previous,           \* what the fromShareable call before it returned
  now                 \* the last reading of Date.now()

shareVars == <<markdown, annotations, globalAttachments, shareUrl, hash,
               payload, once, restored, previous, now>>

VARIABLES
  storage,      \* the cookie storage, key by key
  lastSaved,    \* the setting saved last, while nothing else wrote the key
  gotSettings,  \* what getAgentSwitchSettings returned for this storage
  gotEnabled    \* what isAgentSwitchEnabled returned for this storage

agentVars == <<storage, lastSaved, gotSettings, gotEnabled>>

VARIABLES
  settingsFile,  \* $TARGET_DIR/.claude/settings.local.json
  runs,          \* runs of install.sh so far
  status         \* exit status of the last run

installVars == <<settingsFile, runs, status>>

vars == <<shareVars, agentVars, installVars>>

NoUrl == [gen |-> 0, frag |-> EmptyHash]
NoHash == [from |-> "none", frag |-> EmptyHash]
NotParsed == [threw |-> FALSE, val |-> [t |-> "pending", v |-> ""]]
NoPayload == [t |-> "none", v |-> ""]
NotRestored == [done |-> FALSE, list |-> <<>>]
Restored(list) == [done |-> TRUE, list |-> list]

\* The user presses Share.
GenerateShareUrl ==
  /\ shareUrl.gen = 0
  /\ shareUrl' = [gen |-> 1,
                  frag |-> generateShareUrl(markdown, annotations, globalAttachments)]
  /\ UNCHANGED <<markdown, annotations, globalAttachments, hash, payload, once,
                 restored, previous, now>>
  /\ UNCHANGED <<agentVars, installVars>>

\* A page is loaded with a fragment.
Open(from, frag) ==
  /\ hash' = [from |-> from, frag |-> frag]
  /\ payload' = NotParsed
  /\ restored' = NotRestored
  /\ previous' = NotRestored
  /\ UNCHANGED <<markdown, annotations, globalAttachments, shareUrl, once, now>>

\* The share URL is opened: the first one, or the one shared again.
OpenShared ==
  /\ shareUrl.gen > 0
  /\ hash.from # (IF shareUrl.gen = 1 THEN "share" ELSE "reshare")
  /\ Open(IF shareUrl.gen = 1 THEN "share" ELSE "reshare", shareUrl.frag)
  /\ UNCHANGED <<agentVars, installVars>>

ParseShareHash ==
  /\ hash.from # "none"
  /\ payload = NotParsed
  /\ payload' = parseShareHash(hash.frag)
  /\ UNCHANGED <<markdown, annotations, globalAttachments, shareUrl, hash, once,
                 restored, previous, now>>
  /\ UNCHANGED <<agentVars, installVars>>

\* The decoded payload is shared again.
Reshare ==
  /\ shareUrl.gen = 1
  /\ hash.from = "share"
  /\ payload # NotParsed
  /\ payload.val.t = "object"
  /\ shareUrl' = [gen |-> 2, frag |-> compress(payload.val)]
  /\ once' = payload.val
  /\ UNCHANGED <<markdown, annotations, globalAttachments, hash, payload,
                 restored, previous, now>>
  /\ UNCHANGED <<agentVars, installVars>>

\* data.map is defined and every item can be indexed.
Restorable(data) ==
  /\ data.t = "array"
  /\ \A i \in 1..Len(data.v) : data.v[i].t = "array"

\* fromShareable(payload.a), with the clock read as the list is built.
FromShareable ==
  /\ payload # NotParsed
  /\ Restorable(Get(payload.val, "a"))
  /\ LET data == Get(payload.val, "a") IN
     \E readings \in Readings(2 * Len(data.v), now) :
       /\ restored' = Restored(fromShareable(data, readings))
       /\ now' = IF readings = <<>> THEN now ELSE readings[Len(readings)]
       /\ previous' = restored
       /\ <<restored', previous'>> # <<restored, previous>>
  /\ UNCHANGED <<markdown, annotations, globalAttachments, shareUrl, hash,
                 payload, once>>
  /\ UNCHANGED <<agentVars, installVars>>

\* Fragments of share URLs made in other sessions.
LoadAnnotationInputs ==
  { UserAnnotation(DELETION, Foo, Undefined, Undefined, Undefined),
    UserAnnotation(GLOBAL_COMMENT, Str(""), Str("looks good overall"), Tater, Img),
    UserAnnotation(REPLACEMENT, Foo, Bar, Undefined, Undefined) }

SharedHashes ==
  { generateShareUrl("# Title", list, Undefined) :
      list \in SeqsUpTo(LoadAnnotationInputs, MaxTuples)
               \cup {<<ann>> : ann \in AnnotationInputs} }

\* A share URL that lost its last characters on the way.
TruncatedHashes ==
  { Deflated(SubSeq(h.text, 1, Len(h.text) - 1)) : h \in SharedHashes }

\* A page is loaded with a fragment that came from anywhere.
OpenFragment ==
  /\ hash.from = "none"
  /\ \/ \E frag \in ForeignHashes : Open("foreign", frag)
     \/ \E frag \in SharedHashes : Open("shared", frag)
     \/ \E frag \in TruncatedHashes : Open("truncated", frag)
  /\ UNCHANGED <<agentVars, installVars>>

(***************************************************************************)
(* Agent switch settings (packages/ui/utils/agentSwitch.ts).               *)
(***************************************************************************)
STORAGE_KEY == "plannotator-agent-switch"
OtherKey == "plannotator-identity"
StorageKeys == {STORAGE_KEY, OtherKey}

\* What the storage can hold under a key; Null is an absent key.
StoredValues ==
  {Null, Str("build"), Str("disabled"), Str(""), Str("plan"), Str("Disabled")}

AgentSwitchOptions == {Str("build"), Str("disabled")}

DEFAULT_SETTINGS == [switchTo |-> Str("build")]

\* Mutant: whatever string is stored is returned as the setting.
getAgentSwitchSettings_NoValidation(store) ==
  LET stored == store[STORAGE_KEY] IN
  IF stored # Null THEN [switchTo |-> stored] ELSE DEFAULT_SETTINGS

getAgentSwitchSettings(store) ==
  LET stored == store[STORAGE_KEY] IN
  IF stored = Str("disabled") \/ stored = Str("build")
  THEN [switchTo |-> stored]
  ELSE DEFAULT_SETTINGS

saveAgentSwitchSettings(store, settings) ==
  [store EXCEPT ![STORAGE_KEY] = settings.switchTo]

isAgentSwitchEnabled(store) ==
  getAgentSwitchSettings(store).switchTo # Str("disabled")

NotCalled == [called |-> FALSE, value |-> Null]
Returned(x) == [called |-> TRUE, value |-> x]

AgentInit ==
  /\ storage = [key \in StorageKeys |-> Null]
  /\ lastSaved = Null
  /\ gotSettings = NotCalled
  /\ gotEnabled = NotCalled

SaveAgentSwitchSettings ==
  \E option \in AgentSwitchOptions :
    /\ storage' = saveAgentSwitchSettings(storage, [switchTo |-> option])
    /\ lastSaved' = option
    /\ gotSettings' = NotCalled
    /\ gotEnabled' = NotCalled
    /\ UNCHANGED <<shareVars, installVars>>

\* Another script, the user or cookie expiry changes the storage.
ExternalWrite ==
  \E key \in StorageKeys, value \in StoredValues :
    /\ storage[key] # value
    /\ storage' = [storage EXCEPT ![key] = value]
    /\ lastSaved' = IF key = STORAGE_KEY THEN Null ELSE lastSaved
    /\ gotSettings' = NotCalled
    /\ gotEnabled' = NotCalled
    /\ UNCHANGED <<shareVars, installVars>>

GetAgentSwitchSettings ==
  /\ gotSettings = NotCalled
  /\ gotSettings' = Returned(getAgentSwitchSettings(storage).switchTo)
  /\ UNCHANGED <<storage, lastSaved, gotEnabled>>
  /\ UNCHANGED <<shareVars, installVars>>

IsAgentSwitchEnabled ==
  /\ gotEnabled = NotCalled
  /\ gotEnabled' = Returned(Str(IF isAgentSwitchEnabled(storage) THEN "true" ELSE "false"))
  /\ UNCHANGED <<storage, lastSaved, gotSettings>>
  /\ UNCHANGED <<shareVars, installVars>>

(***************************************************************************)
(* The hook installer (install.sh) and .claude/settings.local.json.        *)
(***************************************************************************)
HOOK_SCRIPT == "/opt/redline/hooks/exit-plan-mode.sh"
OldHookScript == "/old/redline/hooks/exit-plan-mode.sh"
LintScript == "/usr/local/bin/lint.sh"

\* cmd | contains("exit-plan-mode.sh"), for a string cmd
ContainsExitPlanMode(cmd) == cmd \in {Str(HOOK_SCRIPT), Str(OldHookScript)}

CommandHook(path) == [type |-> "command", command |-> Str(path)]
PromptHook == [type |-> "prompt", command |-> Null]
HookEntry(matcher, hooks) == [matcher |-> matcher, hooks |-> hooks]

NEW_HOOK == HookEntry("ExitPlanMode", <<CommandHook(HOOK_SCRIPT)>>)

\* A settings file: absent, not JSON, or an object with its other keys, its
\* other hook events and the list under hooks.PreToolUse (if any).
Absent == [kind |-> "absent", other |-> "", events |-> "", hasList |-> FALSE,
           PreToolUse |-> <<>>]
NotJSONFile == [kind |-> "invalid", other |-> "", events |-> "",
                hasList |-> FALSE, PreToolUse |-> <<>>]
Settings(other, events, hasList, list) ==
  [kind |-> "json", other |-> other, events |-> events, hasList |-> hasList,
   PreToolUse |-> list]

\* All hooks of the file's PreToolUse entries, in document order.
RECURSIVE AllHooks(_)
AllHooks(entries) ==
  IF entries = <<>> THEN <<>> ELSE Head(entries).hooks \o AllHooks(Tail(entries))

\* Exit status of
\*   jq -e '.hooks.PreToolUse[]?.hooks[]? | select(.command | contains(...))'
\* 0 with a match, 4 without output, 5 when contains is given a non-string.
DetectStatus(file) ==
  LET hooks == AllHooks(file.PreToolUse) IN
  IF \E i \in 1..Len(hooks) : hooks[i].command.t # "string" THEN 5
  ELSE IF \E i \in 1..Len(hooks) : ContainsExitPlanMode(hooks[i].command) THEN 0
  ELSE 4

\* .hooks.PreToolUse = (.hooks.PreToolUse // []) + [$hook]
Merge(file) ==
  [file EXCEPT !.hasList = TRUE, !.PreToolUse = Append(file.PreToolUse, NEW_HOOK)]

\* The file after one run of the script, and the script's exit status.
Install(file, hasJq, hasTarget) ==
  IF ~hasJq \/ ~hasTarget THEN [file |-> file, status |-> 1]
  ELSE IF file.kind = "absent"
  THEN [file |-> Settings("", "", TRUE, <<NEW_HOOK>>), status |-> 0]
  ELSE IF file.kind = "invalid" THEN [file |-> file, status |-> 2]
  ELSE IF DetectStatus(file) = 0 THEN [file |-> file, status |-> 0]
  ELSE [file |-> Merge(file), status |-> 0]

SettingsInputs ==
  {Absent, NotJSONFile}
  \cup { Settings(other, events, TRUE, list) :
           other \in {"", "permissions"}, events \in {"", "PostToolUse"},
           list \in { <<>>,
                      <<HookEntry("Bash", <<CommandHook(LintScript)>>)>>,
                      <<HookEntry("ExitPlanMode", <<CommandHook(OldHookScript)>>)>>,
                      <<HookEntry("Bash", <<PromptHook>>)>>,
                      <<HookEntry("Bash", <<CommandHook(LintScript), PromptHook>>),
                        HookEntry("Write", <<>>)>> } }
  \cup { Settings(other, events, FALSE, <<>>) :
           other \in {"", "permissions"}, events \in {"", "PostToolUse"} }

InstallInit ==
  /\ settingsFile \in SettingsInputs
  /\ runs = 0
  /\ status = 0

RunInstall ==
  /\ runs < MaxRuns
  /\ \E hasJq \in BOOLEAN, hasTarget \in BOOLEAN :
       LET r == Install(settingsFile, hasJq, hasTarget) IN
       /\ settingsFile' = r.file
       /\ status' = r.status
  /\ runs' = runs + 1
  /\ UNCHANGED <<shareVars, agentVars>>

(***************************************************************************)
(* Specifications: the three programs do not share state.                  *)
(***************************************************************************)
\* Nothing shared and nothing loaded yet.
ShareStart ==
  /\ shareUrl = NoUrl /\ hash = NoHash /\ payload = NotParsed
  /\ once = NoPayload /\ restored = NotRestored /\ previous = NotRestored

EditorEmpty ==
  markdown = "" /\ annotations = <<>> /\ globalAttachments = Undefined

InstallIdle == settingsFile = Absent /\ runs = 0 /\ status = 0

\* Sharing from the editor and loading the share URL again.  The clock
\* stands at the last modelled millisecond: every reading returns it.
Init ==
  /\ annotations \in SeqsUpTo(AnnotationInputs, MaxAnnotations)
  /\ \E plan \in PlanInputs : markdown = plan[1] /\ globalAttachments = plan[2]
  /\ ShareStart
  /\ now = MaxClock
  /\ AgentInit
  /\ InstallIdle

Next ==
  \/ GenerateShareUrl
  \/ OpenShared
  \/ ParseShareHash
  \/ Reshare
  \/ FromShareable

Spec == Init /\ [][Next]_vars

\* Loading a page whose fragment came from anywhere, with a running clock.
InitLoad == EditorEmpty /\ ShareStart /\ now = 0 /\ AgentInit /\ InstallIdle

NextLoad ==
  \/ OpenFragment
  \/ ParseShareHash
  \/ FromShareable

SpecLoad == InitLoad /\ [][NextLoad]_vars

InitAgentSwitch == EditorEmpty /\ ShareStart /\ now = 0 /\ AgentInit /\ InstallIdle
NextAgentSwitch ==
  \/ SaveAgentSwitchSettings
  \/ ExternalWrite
  \/ GetAgentSwitchSettings
  \/ IsAgentSwitchEnabled

SpecAgentSwitch == InitAgentSwitch /\ [][NextAgentSwitch]_vars

InitInstall == EditorEmpty /\ ShareStart /\ now = 0 /\ AgentInit /\ InstallInit
NextInstall == RunInstall

SpecInstall == InitInstall /\ [][NextInstall]_vars

(***************************************************************************)
(* Properties of the share codec, checked under Spec: the editor's plan    *)
(* and annotations are shared and the share URL is loaded.                 *)
(***************************************************************************)
\* The tuples of the payload decoded on this page load.
Tuples == Get(payload.val, "a")

\* What the projection alone restores, with the clock at 0.
Projected(list) ==
  fromShareable(toShareable(list), [i \in 1..(2 * Len(list)) |-> 0])

SameContent(a, b) ==
  /\ a.type = b.type
  /\ a.originalText = b.originalText
  /\ a.text = b.text
  /\ a.author = b.author

\* C1: restore(decode(encode(P, A))) has the length of A, its i-th annotation
\* has the type, originalText, text and author of the i-th element of
\* fromShareable(toShareable(A)), and the decoded plan p equals P.
C1_RoundTrip ==
  (hash.from = "share" /\ payload # NotParsed) =>
    /\ Get(payload.val, "p") = Str(markdown)
    /\ restored.done =>
         /\ Len(restored.list) = Len(annotations)
         /\ \A i \in 1..Len(annotations) :
              SameContent(restored.list[i], Projected(annotations)[i])

C1_Witness ==
  /\ hash.from = "share"
  /\ restored.done
  /\ Len(restored.list) = 2
  /\ restored.list[1].author = Tater
  /\ restored.list[2].author = Undefined
  /\ annotations[2].imagePaths = Undefined
  /\ markdown = "# Title"

\* C5: a DELETION annotation with no author and no images is decoded as
\* exactly the three-element tuple ['D', originalText, null], and restores to
\* a DELETION with that originalText, text undefined and author undefined.
C5_DeletionTuple ==
  (hash.from = "share" /\ payload # NotParsed) =>
    \A i \in 1..Len(annotations) :
      ( /\ annotations[i].type = DELETION
        /\ annotations[i].author = Undefined
        /\ annotations[i].imagePaths = Undefined ) =>
        /\ Tuples.v[i] = Arr(<<Str("D"), annotations[i].originalText, Null>>)
        /\ restored.done =>
             /\ restored.list[i].type = DELETION
             /\ restored.list[i].originalText = annotations[i].originalText
             /\ restored.list[i].text = Undefined
             /\ restored.list[i].author = Undefined

\* C6: a GLOBAL_COMMENT annotation with text T, no author and no images is
\* decoded as exactly the tuple ['G', T, null], and restores to a
\* GLOBAL_COMMENT with text T and originalText '', whatever its originalText.
C6_GlobalCommentTuple ==
  (hash.from = "share" /\ payload # NotParsed) =>
    \A i \in 1..Len(annotations) :
      ( /\ annotations[i].type = GLOBAL_COMMENT
        /\ ~Falsy(annotations[i].text)
        /\ annotations[i].author = Undefined
        /\ annotations[i].imagePaths = Undefined ) =>
        /\ Tuples.v[i] = Arr(<<Str("G"), annotations[i].text, Null>>)
        /\ restored.done =>
             /\ restored.list[i].type = GLOBAL_COMMENT
             /\ restored.list[i].text = annotations[i].text
             /\ restored.list[i].originalText = Str("")

\* C7: decoding the share URL of a decoded payload gives that payload again:
\* decode(encode(decode(encode(x)))) = decode(encode(x)).
C7_Idempotent ==
  (hash.from = "reshare" /\ payload # NotParsed) => payload.val = once

C7_Witness ==
  /\ hash.from = "reshare"
  /\ payload # NotParsed
  /\ payload.val.t = "object"
  /\ Get(payload.val, "g") = Undefined
  /\ Len(Tuples.v) = 2
  /\ annotations[1].imagePaths = Undefined
  /\ annotations[2].imagePaths = Img

(***************************************************************************)
(* Properties of loading a fragment, checked under SpecLoad.               *)
(***************************************************************************)
\* C2: restoring tuples [t0, ..., tn] yields n+1 annotations, the i-th built
\* from ti, whose createdA values increase strictly with the tuple index,
\* whatever non-decreasing readings the clock gives.
C2_OrderPreserved ==
  restored.done =>
    /\ Len(restored.list) = Len(Tuples.v)
    /\ \A i \in 1..Len(restored.list) :
         /\ restored.list[i].type = typeMap(At(Tuples.v[i], 0))
         /\ restored.list[i].originalText =
              (IF At(Tuples.v[i], 0) = Str("G") THEN Str("") ELSE At(Tuples.v[i], 1))
    /\ \A i, j \in 1..Len(restored.list) :
         i < j => restored.list[i].createdA < restored.list[j].createdA

C2_Witness ==
  /\ restored.done
  /\ Len(restored.list) = 3
  /\ restored.list[1].type = DELETION
  /\ restored.list[2].type = GLOBAL_COMMENT
  /\ restored.list[1].id[3] = restored.list[3].id[3]
  /\ now > 0

\* A fragment that is empty, not base64, not a deflate stream, or not JSON.
Malformed(h) ==
  \/ h.frag.kind \in {"empty", "badbase64", "baddeflate"}
  \/ h.frag.kind = "deflated" /\ h.frag.text \in NotJSONTexts
  \/ h.from = "truncated"

\* C3: parseShareHash never raises to its caller; for an empty hash, bad
\* base64, bytes that do not decompress or text that is not JSON it returns
\* null, and it changes no annotation state.
C3_NeverRaises ==
  /\ [](payload # NotParsed =>
          /\ ~payload.threw
          /\ Malformed(hash) => payload.val = Null)
  /\ [][(payload = NotParsed /\ payload' # NotParsed) =>
          UNCHANGED <<annotations, markdown, globalAttachments, restored, previous>>]_vars

C3_Witness ==
  /\ hash.from = "truncated"
  /\ payload # NotParsed
  /\ payload.val = Null

\* C4: a fragment that decompresses to well-formed JSON which is not a
\* SharePayload is rejected by decode, not returned as a SharePayload.
C4_RejectsNonPayload ==
  ( /\ payload # NotParsed
    /\ hash.frag.kind = "deflated"
    /\ hash.frag.text \in NotPayloadTexts ) => payload.val = Null

Ids(r) == {r.list[i].id : i \in 1..Len(r.list)}

\* Every restored annotation waits for the position resolver.
Unplaced(r) ==
  \A i \in 1..Len(r.list) :
    /\ r.list[i].blockId = ""
    /\ r.list[i].startOffset = 0
    /\ r.list[i].endOffset = 0
    /\ r.list[i].startMeta = Undefined
    /\ r.list[i].endMeta = Undefined

UniqueIds(r) == Cardinality(Ids(r)) = Len(r.list)

\* C8, as claimed: ids are unique within one restoration, ids of two
\* restorations of the same payload never collide, and blockId, offsets and
\* meta are left unset.
C8_UniqueAcrossRestorations ==
  restored.done =>
    /\ UniqueIds(restored)
    /\ previous.done => Ids(previous) \cap Ids(restored) = {}
    /\ Unplaced(restored)

\* C8, amended: ids are unique within one restoration; an id of one
\* restoration equals an id of another only at the same index, and never
\* when the clock advanced between the two; blockId, offsets and meta are
\* left unset.
C8_UniqueWithinRestoration ==
  restored.done =>
    /\ UniqueIds(restored)
    /\ Unplaced(restored)
    /\ previous.done =>
         /\ \A i \in 1..Len(previous.list), j \in 1..Len(restored.list) :
              previous.list[i].id = restored.list[j].id => i = j
         /\ (\A i \in 1..Len(previous.list), j \in 1..Len(restored.list) :
               previous.list[i].id[3] < restored.list[j].id[3])
            => Ids(previous) \cap Ids(restored) = {}

C8_Witness ==
  /\ restored.done
  /\ previous.done
  /\ Len(restored.list) = 2
  /\ restored.list[1].id[3] = restored.list[2].id[3]
  /\ previous.list[2].id[3] < restored.list[1].id[3]

(***************************************************************************)
(* Properties of the agent switch settings, checked under SpecAgentSwitch. *)
(***************************************************************************)
\* C9: getAgentSwitchSettings returns the stored value when it is 'build' or
\* 'disabled' (so the last saved setting) and 'build' otherwise;
\* isAgentSwitchEnabled is false exactly when 'disabled' is stored; neither
\* read writes to the storage.
C9_Settings ==
  /\ [](/\ gotSettings.called =>
             /\ storage[STORAGE_KEY] \in AgentSwitchOptions
                  => gotSettings.value = storage[STORAGE_KEY]
             /\ storage[STORAGE_KEY] \notin AgentSwitchOptions
                  => gotSettings.value = Str("build")
             /\ lastSaved # Null => gotSettings.value = lastSaved
        /\ gotEnabled.called =>
             (gotEnabled.value = Str("false") <=> storage[STORAGE_KEY] = Str("disabled")))
  /\ [][(gotSettings' # gotSettings /\ gotSettings'.called)
          \/ (gotEnabled' # gotEnabled /\ gotEnabled'.called)
        => storage' = storage]_vars

C9_Witness ==
  /\ gotSettings.called
  /\ gotEnabled.called
  /\ storage[STORAGE_KEY] = Str("plan")
  /\ storage[OtherKey] = Str("disabled")
  /\ gotSettings.value = Str("build")

(***************************************************************************)
(* Properties of the installer, checked under SpecInstall.                 *)
(***************************************************************************)
\* The hooks of the file that run exit-plan-mode.sh.
OurHooks(file) ==
  LET hooks == AllHooks(file.PreToolUse) IN
  Cardinality({i \in 1..Len(hooks) : ContainsExitPlanMode(hooks[i].command)})

\* C10: a successful run adds one exit-plan-mode.sh hook to a file that
\* holds none, writes nothing to a file that holds one, and leaves every
\* other key and hook entry of the file as it was.
C10_Idempotent ==
  [][(runs' = runs + 1 /\ status' = 0) =>
       /\ IF OurHooks(settingsFile) = 0
          THEN OurHooks(settingsFile') = 1
          ELSE settingsFile' = settingsFile
       /\ settingsFile.kind = "json" =>
            /\ settingsFile'.other = settingsFile.other
            /\ settingsFile'.events = settingsFile.events
            /\ Len(settingsFile'.PreToolUse) >= Len(settingsFile.PreToolUse)
            /\ SubSeq(settingsFile'.PreToolUse, 1, Len(settingsFile.PreToolUse))
                 = settingsFile.PreToolUse]_vars

=============================================================================
